---- MODULE Spec2Model ----
(***************************************************************************)
(* Greeting program (src/src/lib.rs): the borsh wire format of             *)
(* GreetingInstruction and GreetingAccountState, the space accounting of   *)
(* GreetingAccountState, and process_instruction as a state machine over   *)
(* the account buffers the host hands to it.                               *)
(***************************************************************************)
EXTENDS Integers, Sequences, FiniteSets, TLC

\* ------------------------------------------------------------------ bounds
\* longest raw (unstructured) instruction byte string the host submits
MaxRawLen == 3
\* number of distinct user principals (payers / authorities)
NumPrincipals == 2

\* --------------------------------------------------------- program constants
MAX_NAME_LENGTH == 32
MAX_MESSAGE_LENGTH == 128
PUBKEY_BYTES == 32

\* ------------------------------------------------------------ byte helpers
\* n copies of byte b
Rep(b, n) == [i \in 1..n |-> b]

\* bytes s[from..to] (empty when from > to)
Slice(s, from, to) == [i \in 1..(to - from + 1) |-> s[from + i - 1]]

\* a Pubkey is PUBKEY_BYTES raw bytes; the model's keys repeat one byte
Pubkey(b) == Rep(b, PUBKEY_BYTES)

IsContinuation(b) == b >= 128 /\ b <= 191

\* length of the UTF-8 scalar starting at s[i], 0 when the bytes at i are
\* not a well-formed UTF-8 sequence (String::from_utf8 rejects the buffer)
Utf8Step(s, i) ==
  LET b == s[i]
      n == Len(s)
  IN  IF b < 128 THEN 1
      ELSE IF b >= 194 /\ b <= 223
        THEN IF i + 1 <= n /\ IsContinuation(s[i + 1]) THEN 2 ELSE 0
      ELSE IF b >= 224 /\ b <= 239
        THEN IF i + 2 <= n
                /\ IsContinuation(s[i + 1]) /\ IsContinuation(s[i + 2])
                /\ (b = 224 => s[i + 1] >= 160)
                /\ (b = 237 => s[i + 1] <= 159)
             THEN 3 ELSE 0
      ELSE IF b >= 240 /\ b <= 244
        THEN IF i + 3 <= n
                /\ IsContinuation(s[i + 1]) /\ IsContinuation(s[i + 2])
                /\ IsContinuation(s[i + 3])
                /\ (b = 240 => s[i + 1] >= 144)
                /\ (b = 244 => s[i + 1] <= 143)
             THEN 4 ELSE 0
      ELSE 0

\* a Rust String holds exactly the byte strings that are valid UTF-8: every
\* byte either starts a well-formed scalar or is a continuation byte inside
\* the scalar that the nearest preceding start byte opens
Utf8Valid(s) ==
  \A i \in 1..Len(s) :
    IF IsContinuation(s[i])
    THEN \E k \in 1..3 :
           /\ i - k >= 1
           /\ ~IsContinuation(s[i - k])
           /\ \A j \in (i - k + 1)..(i - 1) : IsContinuation(s[j])
           /\ Utf8Step(s, i - k) > k
    ELSE Utf8Step(s, i) > 0

\* ------------------------------------------------------------- borsh: u32
\* A u32 is held as its 32-bit pattern read as a two's-complement integer
\* (TLC integers are 32 bits wide): patterns with the top bit set,
\* the values 2^31 .. 2^32 - 1, are the negative numbers v - 2^32.
U32BE(n) ==
  << (n \div 16777216) % 256, (n \div 65536) % 256, (n \div 256) % 256, n % 256 >>

\* u32 serialises as 4 little-endian bytes
U32LE(n) ==
  << n % 256, (n \div 256) % 256, (n \div 65536) % 256, (n \div 16777216) % 256 >>

\* the u32 whose 4 little-endian bytes are buf[pos..pos+3]
U32At(buf, pos) ==
  buf[pos] + 256 * buf[pos + 1] + 65536 * buf[pos + 2]
    + 16777216 * (IF buf[pos + 3] >= 128 THEN buf[pos + 3] - 256 ELSE buf[pos + 3])

\* unsigned a <= b on u32 patterns
U32Leq(a, b) == IF (a < 0) = (b < 0) THEN a <= b ELSE a >= 0

\* u32::MAX
U32Max == U32At(<< 255, 255, 255, 255 >>, 1)

\* u32::deserialize at pos: fails when fewer than 4 bytes remain
ReadU32(buf, pos) ==
  IF pos + 3 <= Len(buf)
  THEN [ok |-> TRUE, val |-> U32At(buf, pos), next |-> pos + 4]
  ELSE [ok |-> FALSE, val |-> 0, next |-> pos]

\* ---------------------------------------------------------- borsh: String
\* String serialises as a u32 length prefix followed by the raw bytes
WriteString(s) == U32LE(Len(s)) \o s

\* String::deserialize at pos: length prefix, then that many bytes, which
\* must all be present and must be valid UTF-8
ReadString(buf, pos) ==
  LET l == ReadU32(buf, pos)
  IN  IF ~l.ok THEN [ok |-> FALSE, val |-> << >>, next |-> pos]
      ELSE IF l.val < 0 \/ l.val > Len(buf) - l.next + 1
        THEN [ok |-> FALSE, val |-> << >>, next |-> pos]
      ELSE LET s == Slice(buf, l.next, l.next + l.val - 1)
           IN  IF Utf8Valid(s)
               THEN [ok |-> TRUE, val |-> s, next |-> l.next + l.val]
               ELSE [ok |-> FALSE, val |-> << >>, next |-> pos]

\* ------------------------------------------- borsh: GreetingInstruction
CreateGreeting(name, message) ==
  [variant |-> "CreateGreeting", name |-> name, message |-> message]

SetGreeting(message) ==
  [variant |-> "SetGreeting", message |-> message]

\* value carried by a failed decode
NoInstruction == [variant |-> "none"]

\* BorshSerialize of the enum: one tag byte (the variant's index), then the
\* variant's fields in declaration order
EncodeInstruction(x) ==
  IF x.variant = "CreateGreeting"
  THEN << 0 >> \o WriteString(x.name) \o WriteString(x.message)
  ELSE << 1 >> \o WriteString(x.message)

DecodeInstructionLenient(data) ==
  IF Len(data) = 0 THEN [ok |-> FALSE, val |-> NoInstruction]
  ELSE IF data[1] = 0
    THEN LET n == ReadString(data, 2)
         IN  IF ~n.ok THEN [ok |-> FALSE, val |-> NoInstruction]
             ELSE LET m == ReadString(data, n.next)
                  IN  IF m.ok /\ m.next = Len(data) + 1
                      THEN [ok |-> TRUE, val |-> CreateGreeting(n.val, m.val)]
                      ELSE [ok |-> FALSE, val |-> NoInstruction]
  ELSE LET m == ReadString(data, 2)
       IN  IF m.ok /\ m.next = Len(data) + 1
           THEN [ok |-> TRUE, val |-> SetGreeting(m.val)]
           ELSE [ok |-> FALSE, val |-> NoInstruction]

\* GreetingInstruction::try_from_slice: tag byte, the variant's fields, and
\* an error unless every byte of the slice was consumed
DecodeInstruction(data) ==
  IF Len(data) = 0 THEN [ok |-> FALSE, val |-> NoInstruction]
  ELSE IF data[1] = 0
    THEN LET n == ReadString(data, 2)
         IN  IF ~n.ok THEN [ok |-> FALSE, val |-> NoInstruction]
             ELSE LET m == ReadString(data, n.next)
                  IN  IF m.ok /\ m.next = Len(data) + 1
                      THEN [ok |-> TRUE, val |-> CreateGreeting(n.val, m.val)]
                      ELSE [ok |-> FALSE, val |-> NoInstruction]
  ELSE IF data[1] = 1
    THEN LET m == ReadString(data, 2)
         IN  IF m.ok /\ m.next = Len(data) + 1
             THEN [ok |-> TRUE, val |-> SetGreeting(m.val)]
             ELSE [ok |-> FALSE, val |-> NoInstruction]
  ELSE [ok |-> FALSE, val |-> NoInstruction]

\* ------------------------------------------ borsh: GreetingAccountState
GreetingAccountState(authority, name, message, update_count) ==
  [authority |-> authority, name |-> name, message |-> message,
   update_count |-> update_count]

\* GreetingAccountState::default()
NoState == GreetingAccountState(Pubkey(0), << >>, << >>, 0)

\* BorshSerialize of the struct: the fields in declaration order
EncodeState(r) ==
  r.authority \o WriteString(r.name) \o WriteString(r.message)
    \o U32LE(r.update_count)

\* GreetingAccountState::try_from_slice
DecodeState(buf) ==
  IF Len(buf) < PUBKEY_BYTES THEN [ok |-> FALSE, val |-> NoState]
  ELSE LET n == ReadString(buf, PUBKEY_BYTES + 1)
       IN  IF ~n.ok THEN [ok |-> FALSE, val |-> NoState]
           ELSE LET m == ReadString(buf, n.next)
                IN  IF ~m.ok THEN [ok |-> FALSE, val |-> NoState]
                    ELSE LET c == ReadU32(buf, m.next)
                         IN  IF c.ok /\ c.next = Len(buf) + 1
                             THEN [ok |-> TRUE,
                                   val |-> GreetingAccountState(
                                             Slice(buf, 1, PUBKEY_BYTES),
                                             n.val, m.val, c.val)]
                             ELSE [ok |-> FALSE, val |-> NoState]

get_max_space_needed_no_counter ==
  32 + (4 + MAX_NAME_LENGTH) + (4 + MAX_MESSAGE_LENGTH)

\* GreetingAccountState::get_max_space_needed
get_max_space_needed ==
  32 + (4 + MAX_NAME_LENGTH) + (4 + MAX_MESSAGE_LENGTH) + 4

\* ------------------------------------------------------------- addresses
\* the program's own id, as the host passes it to process_instruction
ProgramId == Pubkey(7)

\* the System Program's id (32 zero bytes)
SystemProgram == Pubkey(0)

Principals == { Pubkey(b) : b \in 1..NumPrincipals }

\* The greeting account's address, "derived from program_id,
\* payer_account.key, and potentially name": a deterministic 32-byte digest
\* of the three inputs, injective on the inputs the model uses.
derive(program_id, payer, name) ==
  << 255, program_id[1], payer[1], Len(name) >>
    \o [i \in 1..(PUBKEY_BYTES - 4) |-> IF i <= Len(name) THEN name[i] ELSE 0]

\* ------------------------------------------------------- the host's inputs
\* names and messages at the ends of their allowed ranges and one past them
Names == { << >>, Rep(65, MAX_NAME_LENGTH), Rep(65, MAX_NAME_LENGTH + 1) }

Messages ==
  { << >>, Rep(104, MAX_MESSAGE_LENGTH), Rep(104, MAX_MESSAGE_LENGTH + 1) }

Instructions ==
  { CreateGreeting(n, m) : n \in Names, m \in Messages }
    \cup { SetGreeting(m) : m \in Messages }

\* well-formed instruction bytes, as a client serialises them
ValidData == { EncodeInstruction(x) : x \in Instructions }

RECURSIVE SeqsUpTo(_, _)
SeqsUpTo(S, n) ==
  IF n = 0 THEN { << >> }
  ELSE LET shorter == SeqsUpTo(S, n - 1)
       IN  shorter \cup { Append(s, b) : s \in { t \in shorter : Len(t) = n - 1 }, b \in S }

\* unstructured byte strings (the test's [1, 2, 3] among them)
RawData == SeqsUpTo({1, 2, 3}, MaxRawLen)

\* tag, a declared string length n, and the bytes that actually follow
LengthLie(tag, n, body) == << tag >> \o U32LE(n) \o body

\* byte strings a client can get wrong: a truncated buffer, a declared length
\* larger than what follows, an unknown tag, trailing bytes, invalid UTF-8
MalformedData ==
  { << 0 >>, << 2 >>, << 0, 0, 0, 0, 0 >> }
    \cup { LengthLie(t, n, b) : t \in {0, 1}, n \in {1, 2, 300}, b \in { << >>, << 104 >> } }
    \cup { LengthLie(t, 1, << 255 >>) : t \in {1, 2} }
    \cup { << 2 >> \o WriteString(m) : m \in { << >>, << 104 >> } }
    \cup { << 0 >> \o WriteString(<< 65 >>) \o U32LE(n) \o << 104 >> : n \in {2, 70000} }
    \cup { EncodeInstruction(SetGreeting(<< 104 >>)) \o << 0 >> }

InstructionData == ValidData \cup RawData \cup MalformedData

\* AccountInfo as process_instruction reads it: key and the two flags (the
\* data buffer of the account is ledger[key])
AccountInfo(key, is_signer, is_writable) ==
  [key |-> key, is_signer |-> is_signer, is_writable |-> is_writable]

\* addresses of greeting accounts: derived from the first principal
SlotKeys == { derive(ProgramId, Pubkey(1), n) : n \in Names }

AccountKeys == Principals \cup SlotKeys \cup { SystemProgram }

\* account 0 of either instruction: a principal, writable as in the test
PrincipalInfos == { AccountInfo(k, s, TRUE) : k \in Principals, s \in BOOLEAN }

\* account 1 of either instruction: a greeting account's slot
SlotInfos == { AccountInfo(k, FALSE, w) : k \in SlotKeys, w \in BOOLEAN }

\* account 2 of CreateGreeting
SystemInfo == AccountInfo(SystemProgram, FALSE, FALSE)

\* account lists: a prefix of <<principal, slot, system program>>
AccountLists ==
  { << >> }
    \cup { << a >> : a \in PrincipalInfos }
    \cup { << a, b >> : a \in PrincipalInfos, b \in SlotInfos }
    \cup { << a, b, SystemInfo >> : a \in PrincipalInfos, b \in SlotInfos }

\* a greeting record as an earlier CreateGreeting by principal 1 is
\* documented to leave it
StoredName == Rep(65, MAX_NAME_LENGTH)

StoredSlot == derive(ProgramId, Pubkey(1), StoredName)

StoredRecord == GreetingAccountState(Pubkey(1), StoredName, << 104, 105 >>, 0)

\* the account buffers before the first invocation: all empty, or one
\* greeting account holding a serialised record
InitLedgers ==
  { [k \in AccountKeys |-> << >>] }
    \cup { [k \in AccountKeys |->
               IF k = StoredSlot THEN EncodeState(StoredRecord) ELSE << >>] }

\* ------------------------------------------------------------------ state
VARIABLES
  ledger,            \* account key -> the account's data buffer
  accounts,          \* the account list of the current invocation
  instruction_data,  \* the instruction bytes of the current invocation
  pc,                \* "idle", "accounts" (list fixed), "ready" (bytes fixed
                     \* too), "done" (the invocation has returned)
  result,            \* the ProgramResult of the invocation ("none" before)
  arm,               \* the match arm the invocation logged ("none" if none)
  writes,            \* account buffer writes the invocation issued
  codec_in,          \* round trip: the value handed to the serialiser
  codec_wire,        \* round trip: its serialised bytes
  codec_out,         \* round trip: the value decoded back
  codec_pc           \* round trip: "in", "encoded" or "decoded"

vars ==
  << ledger, accounts, instruction_data, pc, result, arm, writes,
     codec_in, codec_wire, codec_out, codec_pc >>

progVars == << ledger, accounts, instruction_data, pc, result, arm, writes >>

codecVars == << codec_in, codec_wire, codec_out, codec_pc >>

\* ---------------------------------------------------- process_instruction
\* what one invocation yields: its result, the arm it logged, the account
\* buffers it leaves and the number of buffer writes it issued
Outcome(res, a, led, w) ==
  [result |-> res, arm |-> a, ledger |-> led, writes |-> w]

\* the CreateGreeting arm: logs the name and the message, nothing else
CreateGreetingArm(program_id, accts, led, name, message) ==
  Outcome("Ok", "CreateGreeting", led, 0)

SetGreetingArmRebuild(program_id, accts, led, message) ==
  IF Len(accts) >= 2 /\ accts[2].key \in DOMAIN led
  THEN Outcome("Ok", "SetGreeting",
               [led EXCEPT ![accts[2].key] =
                  EncodeState(GreetingAccountState(accts[1].key, << >>, message, 0))],
               1)
  ELSE Outcome("Ok", "SetGreeting", led, 0)

\* the SetGreeting arm: logs the new message, nothing else
SetGreetingArm(program_id, accts, led, message) ==
  Outcome("Ok", "SetGreeting", led, 0)

process_instruction_clear_first(program_id, accts, data, led) ==
  LET cleared == IF Len(accts) >= 2
                 THEN [led EXCEPT ![accts[2].key] = << >>]
                 ELSE led
      d == DecodeInstruction(data)
  IN  IF ~d.ok
      THEN Outcome("InvalidInstructionData", "none", cleared, 1)
      ELSE IF d.val.variant = "CreateGreeting"
        THEN CreateGreetingArm(program_id, accts, led, d.val.name, d.val.message)
        ELSE SetGreetingArm(program_id, accts, led, d.val.message)

\* process_instruction: decode the instruction bytes, fail with
\* InvalidInstructionData when they do not decode, else run the variant's arm
\* and return Ok(())
process_instruction(program_id, accts, data, led) ==
  LET d == DecodeInstruction(data)
  IN  IF ~d.ok
      THEN Outcome("InvalidInstructionData", "none", led, 0)
      ELSE IF d.val.variant = "CreateGreeting"
        THEN CreateGreetingArm(program_id, accts, led, d.val.name, d.val.message)
        ELSE SetGreetingArm(program_id, accts, led, d.val.message)

\* ------------------------------------------------- serialiser round trips
\* names, messages and counters handed to the serialiser: empty, one byte,
\* multi-byte UTF-8 scalars, the limits and past them, a length that needs
\* the second prefix byte, counters that need each of the four bytes
CodecNames ==
  { << >>, << 65 >>, << 195, 169 >>,
    Rep(65, MAX_NAME_LENGTH), Rep(65, MAX_NAME_LENGTH + 1) }

CodecMessages ==
  { << >>, << 104, 105 >>, << 240, 159, 152, 128, 33 >>,
    Rep(104, MAX_MESSAGE_LENGTH), Rep(104, MAX_MESSAGE_LENGTH + 1),
    Rep(104, 300) }

CodecCounts == { 0, 1, 256, 16909060, U32Max }

CodecInstructions ==
  { CreateGreeting(n, m) : n \in CodecNames, m \in CodecMessages }
    \cup { SetGreeting(m) : m \in CodecMessages }

CodecRecords ==
  { GreetingAccountState(a, n, m, c) :
      a \in Principals \cup { Pubkey(255) }, n \in CodecNames,
      m \in CodecMessages, c \in CodecCounts }

CodecInputs ==
  { [kind |-> "instruction", val |-> x] : x \in CodecInstructions }
    \cup { [kind |-> "record", val |-> r] : r \in CodecRecords }

NoCodecInput == [kind |-> "none", val |-> NoInstruction]

NoCodecOutput == [ok |-> FALSE, val |-> NoInstruction]

\* borsh::to_vec of the value
Encode(x) ==
  IF x.kind = "instruction" THEN EncodeInstruction(x.val) ELSE EncodeState(x.val)

\* try_from_slice at the value's type
Decode(kind, wire) ==
  IF kind = "instruction" THEN DecodeInstruction(wire) ELSE DecodeState(wire)

CodecInit ==
  /\ codec_in \in CodecInputs
  /\ codec_wire = << >>
  /\ codec_out = NoCodecOutput
  /\ codec_pc = "in"
  /\ ledger = [k \in AccountKeys |-> << >>]
  /\ accounts = << >>
  /\ instruction_data = << >>
  /\ pc = "idle"
  /\ result = "none"
  /\ arm = "none"
  /\ writes = 0

CodecEncode ==
  /\ codec_pc = "in"
  /\ codec_wire' = Encode(codec_in)
  /\ codec_pc' = "encoded"
  /\ UNCHANGED << codec_in, codec_out >>
  /\ UNCHANGED progVars

CodecDecode ==
  /\ codec_pc = "encoded"
  /\ codec_out' = Decode(codec_in.kind, codec_wire)
  /\ codec_pc' = "decoded"
  /\ UNCHANGED << codec_in, codec_wire >>
  /\ UNCHANGED progVars

CodecNext == CodecEncode \/ CodecDecode

SpecCodec == CodecInit /\ [][CodecNext]_vars

\* ----------------------------------------------------------------- actions
Init ==
  /\ ledger \in InitLedgers
  /\ accounts = << >>
  /\ instruction_data = << >>
  /\ pc = "idle"
  /\ result = "none"
  /\ arm = "none"
  /\ writes = 0
  /\ codec_in = NoCodecInput
  /\ codec_wire = << >>
  /\ codec_out = NoCodecOutput
  /\ codec_pc = "off"

\* the host starts a new invocation and fixes its account list
HostSetAccounts ==
  /\ pc \in {"idle", "done"}
  /\ \E a \in AccountLists : accounts' = a
  /\ instruction_data' = << >>
  /\ pc' = "accounts"
  /\ result' = "none"
  /\ arm' = "none"
  /\ writes' = 0
  /\ UNCHANGED ledger
  /\ UNCHANGED codecVars

\* the host fixes the instruction bytes of the invocation
HostSetData ==
  /\ pc = "accounts"
  /\ \E d \in InstructionData : instruction_data' = d
  /\ pc' = "ready"
  /\ UNCHANGED << ledger, accounts, result, arm, writes >>
  /\ UNCHANGED codecVars

\* the host enters the program: one whole run of process_instruction
Invoke ==
  /\ pc = "ready"
  /\ LET out == process_instruction(ProgramId, accounts, instruction_data, ledger)
     IN  /\ result' = out.result
         /\ arm' = out.arm
         /\ ledger' = out.ledger
         /\ writes' = out.writes
  /\ pc' = "done"
  /\ UNCHANGED << accounts, instruction_data >>
  /\ UNCHANGED codecVars

Next == HostSetAccounts \/ HostSetData \/ Invoke

Spec == Init /\ [][Next]_vars

\* =================================================================== claims
\* the current invocation has returned
Returned == pc = "done"

\* the step is one run of process_instruction
InvokeStep == pc = "ready" /\ pc' = "done"

\* the record a buffer holds, if it holds one
RecordAt(led, key) == DecodeState(led[key])

SetGreetingData == { EncodeInstruction(SetGreeting(m)) : m \in Messages }

\* ---- C1
\* C1: a SetGreeting invocation whose account 0 is a signer other than the
\* stored authority of the initialised record in account 1 fails with
\* Unauthorized and leaves every account buffer as it was.
C1_UnauthorizedSetGreetingRejected ==
  [][ ( /\ InvokeStep
        /\ instruction_data \in SetGreetingData
        /\ Len(accounts) >= 2
        /\ accounts[1].is_signer
        /\ RecordAt(ledger, accounts[2].key).ok
        /\ RecordAt(ledger, accounts[2].key).val.authority # accounts[1].key )
      => ( result' = "Unauthorized" /\ ledger' = ledger ) ]_vars

\* ---- C2
\* accounts as CreateGreeting documents them, for the given name
ValidCreateAccounts(name) ==
  /\ Len(accounts) = 3
  /\ accounts[1].is_signer /\ accounts[1].is_writable
  /\ accounts[2].key = derive(ProgramId, accounts[1].key, name)
  /\ accounts[2].is_writable
  /\ ledger[accounts[2].key] = << >>
  /\ accounts[3].key = SystemProgram

\* C2: CreateGreeting with valid accounts fails with FieldTooLong when the
\* name is longer than 32 bytes or the message longer than 128 bytes, and
\* succeeds otherwise (32 and 128 included).
C2_CreateGreetingLengthChecked ==
  \A n \in Names, m \in Messages :
    ( /\ Returned
      /\ instruction_data = EncodeInstruction(CreateGreeting(n, m))
      /\ ValidCreateAccounts(n) )
    => result = IF Len(n) > MAX_NAME_LENGTH \/ Len(m) > MAX_MESSAGE_LENGTH
                THEN "FieldTooLong" ELSE "Ok"

\* ---- C3
\* C3: a CreateGreeting invocation whose account 1 is not at the address
\* derived from the program, the payer and the name fails with
\* InvalidAccountAddress and allocates or writes nothing.
C3_CreateGreetingAddressChecked ==
  [][ \A n \in Names, m \in Messages :
        ( /\ InvokeStep
          /\ instruction_data = EncodeInstruction(CreateGreeting(n, m))
          /\ Len(accounts) >= 2
          /\ accounts[2].key # derive(ProgramId, accounts[1].key, n) )
        => ( result' = "InvalidAccountAddress" /\ ledger' = ledger ) ]_vars

\* ---- C4
\* C4: every successful SetGreeting by the authority raises the stored
\* update_count by one (so n calls on a fresh record leave it at n) and
\* stores the call's message.
C4_SetGreetingCountsAndStores ==
  [][ \A m \in Messages :
        ( /\ InvokeStep
          /\ instruction_data = EncodeInstruction(SetGreeting(m))
          /\ Len(accounts) >= 2
          /\ accounts[1].is_signer
          /\ accounts[2].is_writable
          /\ RecordAt(ledger, accounts[2].key).ok
          /\ RecordAt(ledger, accounts[2].key).val.authority = accounts[1].key
          /\ result' = "Ok" )
        => LET before == RecordAt(ledger, accounts[2].key).val
               after == RecordAt(ledger', accounts[2].key)
           IN  /\ after.ok
               /\ after.val.update_count = before.update_count + 1
               /\ after.val.message = m ]_vars

\* ---- C5
\* the first byte is no variant's tag
UnknownTag(data) == Len(data) >= 1 /\ data[1] \notin {0, 1}

\* a u32 prefix at pos declares more bytes than follow it
DeclaresTooMuch(data, pos) ==
  /\ pos + 3 <= Len(data)
  /\ ~U32Leq(U32At(data, pos), Len(data) - (pos + 3))

\* the tag is known and a string's declared length exceeds what remains
DeclaredLengthExceeds(data) ==
  /\ Len(data) >= 1
  /\ \/ data[1] \in {0, 1} /\ DeclaresTooMuch(data, 2)
     \/ /\ data[1] = 0
        /\ 5 <= Len(data)
        /\ ~DeclaresTooMuch(data, 2)
        /\ DeclaresTooMuch(data, 6 + U32At(data, 2))

\* C5: instruction bytes with an unknown tag, or with a declared string
\* length larger than the bytes that remain, make process_instruction return
\* InvalidInstructionData without entering either arm.
C5_UndecodableRejected ==
  ( Returned /\ (UnknownTag(instruction_data) \/ DeclaredLengthExceeds(instruction_data)) )
    => ( result = "InvalidInstructionData" /\ arm = "none" )

C5_Witness ==
  /\ Returned
  /\ instruction_data = LengthLie(1, 300, << 104 >>)
  /\ DeclaredLengthExceeds(instruction_data)
  /\ result = "InvalidInstructionData"

\* ---- C6
\* C6: the invocation of test_basic_invocation (one non-signer, writable
\* account with no data, instruction bytes [1, 2, 3]) returns Ok(()).
C6_BasicInvocationOk ==
  ( /\ Returned
    /\ instruction_data = << 1, 2, 3 >>
    /\ Len(accounts) = 1
    /\ ~accounts[1].is_signer
    /\ accounts[1].is_writable
    /\ ledger[accounts[1].key] = << >> )
  => result = "Ok"

\* ---- C7
\* a value within the field limits
WithinLimits(x) ==
  /\ x.kind = "instruction" /\ x.val.variant = "SetGreeting"
       => Len(x.val.message) <= MAX_MESSAGE_LENGTH
  /\ ~(x.kind = "instruction" /\ x.val.variant = "SetGreeting")
       => /\ Len(x.val.name) <= MAX_NAME_LENGTH
          /\ Len(x.val.message) <= MAX_MESSAGE_LENGTH

\* C7: decoding the serialised form of a valid instruction or a valid
\* greeting record succeeds and yields the value that was serialised.
C7_RoundTrip ==
  ( codec_pc = "decoded" /\ WithinLimits(codec_in) )
    => ( codec_out.ok /\ codec_out.val = codec_in.val )

C7_Witness ==
  /\ codec_pc = "decoded"
  /\ codec_in.kind = "record"
  /\ codec_in.val = GreetingAccountState(Pubkey(2), << 195, 169 >>,
                                         Rep(104, MAX_MESSAGE_LENGTH), U32Max)
  /\ codec_out.ok

\* ---- C8
\* C8: get_max_space_needed() is 204; a record within the field limits
\* serialises to at most that many bytes, and to exactly that many when the
\* name and the message are both at their limit.
C8_MaxSpace ==
  /\ get_max_space_needed = 204
  /\ ( codec_pc = "encoded" /\ codec_in.kind = "record" /\ WithinLimits(codec_in) )
       => /\ Len(codec_wire) <= get_max_space_needed
          /\ ( Len(codec_in.val.name) = MAX_NAME_LENGTH
               /\ Len(codec_in.val.message) = MAX_MESSAGE_LENGTH )
               => Len(codec_wire) = get_max_space_needed

C8_Witness ==
  /\ codec_pc = "encoded"
  /\ codec_in.kind = "record"
  /\ Len(codec_in.val.name) = MAX_NAME_LENGTH
  /\ Len(codec_in.val.message) = MAX_MESSAGE_LENGTH
  /\ Len(codec_wire) = 204

\* ---- C9
\* C9: whatever is invoked, a buffer that holds a record keeps holding one
\* with the same authority and the same name and with an update_count that
\* is not smaller (a step that changes no buffer satisfies this outright).
C9_RecordIdentityStable ==
  [][ \A k \in AccountKeys :
        ( ledger'[k] # ledger[k] /\ RecordAt(ledger, k).ok )
        => /\ RecordAt(ledger', k).ok
           /\ RecordAt(ledger', k).val.authority = RecordAt(ledger, k).val.authority
           /\ RecordAt(ledger', k).val.name = RecordAt(ledger, k).val.name
           /\ U32Leq(RecordAt(ledger, k).val.update_count,
                     RecordAt(ledger', k).val.update_count) ]_vars

C9_Witness ==
  /\ Returned
  /\ result = "Ok"
  /\ arm = "SetGreeting"
  /\ Len(accounts) >= 2
  /\ accounts[2].key = StoredSlot
  /\ accounts[1].key # StoredRecord.authority
  /\ RecordAt(ledger, StoredSlot).ok
  /\ RecordAt(ledger, StoredSlot).val = StoredRecord

\* ---- C10
\* C10: an invocation that returns an error leaves every account buffer
\* (contents and length) as it was, and no invocation issues more than one
\* buffer write.
C10_FailureWritesNothing ==
  [][ InvokeStep
      => /\ result' # "Ok" => ledger' = ledger
         /\ writes' <= 1 ]_vars

C10_Witness ==
  /\ Returned
  /\ result = "InvalidInstructionData"
  /\ Len(accounts) >= 2
  /\ ledger[accounts[2].key] # << >>

====
